---------------------------- MODULE Spec2Model ----------------------------
(***************************************************************************)
(* Model of src/app.py (Quick MD Helper): the retry policy of             *)
(* process_task, the response formatter display_result, and the session   *)
(* history kept by the 'Run Selected' / 'Run All Tasks' / 'Clear'          *)
(* handlers of the Streamlit script.                                       *)
(*                                                                         *)
(* Text is a sequence of one-character strings, so that strip(), split(),  *)
(* startswith() and the substring test `in` are computed character by      *)
(* character as Python computes them.  The module is ASCII only: the       *)
(* bullet U+2022 of the source is written BULLET and stands as "*".        *)
(***************************************************************************)
EXTENDS Naturals, Sequences, FiniteSets, TLC

VARIABLES
    history,       \* st.session_state.history: the list of history entries
    session_case,  \* st.session_state.get("case", ""): the stored case text
    run,           \* what the current script rerun did and rendered
    inserted,      \* history variable: entries appended since the last clear, in order
    task_io,       \* one invocation of process_task: its inputs, then its outcome
    fmt_io         \* one invocation of display_result: its input, then what it rendered

vars == <<history, session_case, run, inserted, task_io, fmt_io>>

-----------------------------------------------------------------------------
(* Bounds of the model *)

\* Run handlers are explored while the history holds fewer entries than this.
MaxHistory == 2

\* An answer given to display_result is a concatenation of at most this many pieces.
MaxPieces == 3

\* A provider text given to process_task alone has at most this many characters.
MaxTextLen == 2

-----------------------------------------------------------------------------
(* Text: Python str operations on sequences of characters *)

BULLET == "*"

\* The characters str.strip() removes, among those the model's texts use.
Whitespace == {" ", "\n", "\t"}

RECURSIVE LStrip(_)
LStrip(s) ==
    IF s # <<>> /\ Head(s) \in Whitespace THEN LStrip(Tail(s)) ELSE s

RECURSIVE RStrip(_)
RStrip(s) ==
    IF s # <<>> /\ s[Len(s)] \in Whitespace
    THEN RStrip(SubSeq(s, 1, Len(s) - 1))
    ELSE s

\* str.strip()
Strip(s) == RStrip(LStrip(s))

\* s.split(sep) for a one-character sep: always at least one (possibly empty) field.
RECURSIVE SplitFrom(_, _, _, _)
SplitFrom(s, sep, i, cur) ==
    IF i > Len(s) THEN <<cur>>
    ELSE IF s[i] = sep THEN <<cur>> \o SplitFrom(s, sep, i + 1, <<>>)
    ELSE SplitFrom(s, sep, i + 1, Append(cur, s[i]))

Split(s, sep) == SplitFrom(s, sep, 1, <<>>)

\* s.startswith(p)
StartsWith(s, p) == Len(s) >= Len(p) /\ SubSeq(s, 1, Len(p)) = p

\* sub in s
Contains(s, sub) ==
    \E i \in 1..(Len(s) + 1) :
        i + Len(sub) - 1 <= Len(s) /\ SubSeq(s, i, i + Len(sub) - 1) = sub

\* Python truthiness of a str
Truthy(s) == s # <<>>

-----------------------------------------------------------------------------
(* Program constants *)

MAX_TOKENS == 3500

MAX_TOKENS_RETRY_SAME == MAX_TOKENS

MAX_TOKENS_RETRY == 5000

\* "[Still empty after retry]"
SENTINEL ==
    <<"[", "S", "t", "i", "l", "l", " ", "e", "m", "p", "t", "y", " ",
      "a", "f", "t", "e", "r", " ", "r", "e", "t", "r", "y", "]">>

\* "Error: ", the prefix of f"Error: {str(e)}"
ERROR_PREFIX == <<"E", "r", "r", "o", "r", ":", " ">>

\* "Error:", the marker the history view looks for
ERROR_MARK == <<"E", "r", "r", "o", "r", ":">>

\* list(TOPICS.keys()), in insertion order
TOPIC_KEYS == <<"Treatment", "Confirmatory test", "Differential & next steps">>

Tasks == {TOPIC_KEYS[i] : i \in 1..Len(TOPIC_KEYS)}

\* TOPICS[task]: the instruction fragment of a task (its text is not inspected)
TOPICS(task) == <<"instruction", task>>

\* SYSTEM_PROMPT.format(task_instruction=...)
SystemPrompt(task_instruction) == <<"SYSTEM_PROMPT", task_instruction>>

-----------------------------------------------------------------------------
(* The provider: what one client.chat.completions.create call can do *)

\* The call returns a completion whose message.content is this text.
Text(t) == [kind |-> "text", text |-> t]

\* The call returns a completion whose message.content is None.
NoContent == [kind |-> "none", text |-> <<>>]

\* The call raises; str(e) is this text.
Raise(msg) == [kind |-> "raise", text |-> msg]

\* response.choices[0].message.content or dflt
ContentOr(r, dflt) ==
    IF r.kind = "text" /\ Truthy(r.text) THEN r.text ELSE dflt


-----------------------------------------------------------------------------
(* process_task: the completion client and the retry policy *)

\* The messages list built for a task and a case
Messages(task_instruction, case_text) ==
    [system |-> SystemPrompt(task_instruction), user |-> case_text]

\* One call_o3(messages, max_tok), as the provider sees it
CallO3(messages, max_tok) == [messages |-> messages, max_tok |-> max_tok]

\* answer = response.choices[0].message.content or ""
FirstAnswer(r) == ContentOr(r, <<>>)

\* answer = response.choices[0].message.content or "[Still empty after retry]"
RetryAnswer(r) == ContentOr(r, SENTINEL)

NeedsRetryInverted(answer) == Strip(answer) # <<>>

\* if answer.strip() == "":
NeedsRetry(answer) == Strip(answer) = <<>>

\* What process_task does when the provider answers its first call with r1
\* and its second call, if it makes one, with r2: the calls made, and either
\* the returned answer or the exception that escapes (raised, err = str(e)).
process_task(task_name, task_instruction, case_text, r1, r2) ==
    LET messages == Messages(task_instruction, case_text)
        call1 == CallO3(messages, MAX_TOKENS)
        call2 == CallO3(messages, MAX_TOKENS_RETRY)
        Returned(calls, answer) ==
            [calls |-> calls, raised |-> FALSE, answer |-> answer, err |-> <<>>]
        Raised(calls, msg) ==
            [calls |-> calls, raised |-> TRUE, answer |-> <<>>, err |-> msg]
    IN  IF r1.kind = "raise" THEN Raised(<<call1>>, r1.text)
        ELSE IF ~NeedsRetry(FirstAnswer(r1)) THEN Returned(<<call1>>, FirstAnswer(r1))
        ELSE IF r2.kind = "raise" THEN Raised(<<call1, call2>>, r2.text)
        ELSE Returned(<<call1, call2>>, RetryAnswer(r2))

-----------------------------------------------------------------------------
(* display_result: the guideline tag and the bullet formatting *)

Y2025 == <<"2", "0", "2", "5">>
Y2024 == <<"2", "0", "2", "4">>
Y2023 == <<"2", "0", "2", "3">>
Y2022 == <<"2", "0", "2", "2">>

YearsAscending == <<Y2022, Y2023, Y2024, Y2025>>

\* for year in ["2025", "2024", "2023", "2022"]
YEARS == <<Y2025, Y2024, Y2023, Y2022>>

NONE == <<"N", "O", "N", "E">>

\* The text of container.error when there is no answer to show
NO_RESPONSE == <<"No response received">>

\* The for loop with its break: the first year of the list found in the answer
RECURSIVE FirstYear(_, _)
FirstYear(years, answer) ==
    IF years = <<>> THEN NONE
    ELSE IF Contains(answer, Head(years)) THEN Head(years)
    ELSE FirstYear(Tail(years), answer)

\* True of an answer display_result treats as content
IsContent(answer) == Truthy(answer) /\ answer # SENTINEL

GuidelineTag(answer) ==
    IF IsContent(answer) THEN FirstYear(YEARS, answer) ELSE NONE

BulletLineAlways(line) == <<BULLET, " ">> \o line

\* if not line.startswith(BULLET): line = f"{BULLET} {line}"
BulletLine(line) ==
    IF ~StartsWith(line, <<BULLET>>) THEN <<BULLET, " ">> \o line ELSE line

\* The loop over lines: formatted_answer += f"{line}\n\n" for every non-blank line
RECURSIVE FormatLines(_)
FormatLines(lines) ==
    IF lines = <<>> THEN <<>>
    ELSE LET line == Strip(Head(lines))
         IN  (IF Truthy(line) THEN BulletLine(line) \o <<"\n", "\n">> ELSE <<>>)
             \o FormatLines(Tail(lines))

\* formatted_answer.strip(), from lines = answer.strip().split('\n')
FormattedAnswer(answer) == Strip(FormatLines(Split(Strip(answer), "\n")))

\* What display_result renders: the task header, the tag and its badge, the body
display_result(task_name, answer) ==
    LET tag == GuidelineTag(answer)
    IN  [header |-> task_name,
         tag    |-> tag,
         badge  |-> IF tag # NONE THEN "success" ELSE "warning",
         body   |-> IF IsContent(answer)
                    THEN [widget |-> "info", text |-> FormattedAnswer(answer)]
                    ELSE [widget |-> "error", text |-> NO_RESPONSE]]

-----------------------------------------------------------------------------
(* Idle values of the variables a specification does not use *)

NoResult == [calls |-> <<>>, raised |-> FALSE, answer |-> <<>>, err |-> <<>>]

TaskIdle ==
    [phase |-> "idle", task |-> "", case |-> <<>>,
     r1 |-> NoContent, r2 |-> NoContent, result |-> NoResult]

NoDisplay ==
    [header |-> "", tag |-> NONE, badge |-> "",
     body |-> [widget |-> "", text |-> <<>>]]

FmtIdle == [phase |-> "idle", task |-> "", answer |-> <<>>, out |-> NoDisplay]

RunIdle == [kind |-> "start", runs |-> <<>>]

-----------------------------------------------------------------------------
(* SpecTask: process_task alone, over every pair of provider responses *)

\* All texts of at most n characters over the alphabet S
TextsUpTo(S, n) == UNION {[1..k -> S] : k \in 0..n}

\* What the provider may answer to a call: a text (empty, blank or not),
\* a completion without content, or a failure.
TaskResponses ==
    {Text(t) : t \in TextsUpTo({" ", "\n", "a"}, MaxTextLen)}
        \cup {NoContent, Raise(<<"b", "o", "o", "m">>)}

TaskCases == {<<"c">>, <<"d", " ", "e">>}

InitTask ==
    /\ history = <<>>
    /\ session_case = <<>>
    /\ run = RunIdle
    /\ inserted = <<>>
    /\ fmt_io = FmtIdle
    /\ \E t \in Tasks, c \in TaskCases, r1 \in TaskResponses, r2 \in TaskResponses :
           task_io = [phase |-> "input", task |-> t, case |-> c,
                      r1 |-> r1, r2 |-> r2, result |-> NoResult]

\* process_task(task, TOPICS[task], case) runs against the provider.
RunProcessTask ==
    /\ task_io.phase = "input"
    /\ task_io' = [task_io EXCEPT
                     !.phase = "done",
                     !.result = process_task(task_io.task, TOPICS(task_io.task),
                                             task_io.case, task_io.r1, task_io.r2)]
    /\ UNCHANGED <<history, session_case, run, inserted, fmt_io>>

NextTask == RunProcessTask

SpecTask == InitTask /\ [][NextTask]_vars

-----------------------------------------------------------------------------
(* SpecFmt: display_result alone, over a set of answers *)

Pieces ==
    {<<BULLET>>, <<"a">>, <<" ">>, <<"\n">>, Y2022, Y2023, Y2024, Y2025,
     <<"2", "0", "2">>, <<"5">>}

\* Concatenations of at most n pieces
RECURSIVE PieceTexts(_)
PieceTexts(n) ==
    IF n = 0 THEN {<<>>}
    ELSE LET shorter == PieceTexts(n - 1)
         IN  shorter \cup {t \o p : t \in shorter, p \in Pieces}

\* "Line A\nLine B\n\n* Line C" with BULLET for the bullet
EXAMPLE_LINES ==
    <<"L", "i", "n", "e", " ", "A", "\n", "L", "i", "n", "e", " ", "B", "\n",
      "\n", BULLET, " ", "L", "i", "n", "e", " ", "C">>

Answers == PieceTexts(MaxPieces) \cup {SENTINEL, EXAMPLE_LINES}

InitFmt ==
    /\ history = <<>>
    /\ session_case = <<>>
    /\ run = RunIdle
    /\ inserted = <<>>
    /\ task_io = TaskIdle
    /\ \E t \in Tasks, a \in Answers :
           fmt_io = [phase |-> "input", task |-> t, answer |-> a, out |-> NoDisplay]

\* display_result(task, answer) renders.
RunDisplayResult ==
    /\ fmt_io.phase = "input"
    /\ fmt_io' = [fmt_io EXCEPT
                    !.phase = "done",
                    !.out = display_result(fmt_io.task, fmt_io.answer)]
    /\ UNCHANGED <<history, session_case, run, inserted, task_io>>

NextFmt == RunDisplayResult

SpecFmt == InitFmt /\ [][NextFmt]_vars

-----------------------------------------------------------------------------
(* Spec: the script's handlers over the session state *)

\* TEMPLATES.values(): the case texts the template buttons store
TemplateTexts == {<<"c">>}

\* What the text area can hold when a button is pressed: the stored case
\* or anything the user typed (blank, or with spaces around it).
CaseInputs(stored) == {<<" ">>, <<" ", "c">>} \cup {stored}

\* What the provider may answer to the first call a handler's task makes
AppResponses ==
    {Text(<<>>), Text(<<"a">>), Text(ERROR_MARK \o <<"a">>), Raise(<<"x">>)}

\* What the provider may answer to the retry
AppRetryResponses == {Raise(<<"x">>)}

\* The provider's answers to the calls of one task: none are asked for
\* when the case is blank, since the handlers then do nothing.
ProviderAnswers(case) ==
    IF Truthy(Strip(case)) THEN AppResponses \X AppRetryResponses
    ELSE {<<NoContent, NoContent>>}

\* A history entry (the timestamp, which nothing reads back, is left out)
Entry(type, case_text, results) ==
    [type |-> type, case |-> case_text, results |-> results]

\* results[task_name] = response, in a dict that keeps insertion order
Result(task_name, response) == [task |-> task_name, response |-> response]

AppendEntryReplacing(h, entry) == <<entry>>

\* st.session_state.history.append(history_entry)
AppendEntry(h, entry) == Append(h, entry)

\* A template button: st.session_state.case = text
TemplateButton(text) ==
    /\ session_case' = text
    /\ run' = [RunIdle EXCEPT !.kind = "template"]
    /\ UNCHANGED <<history, inserted, task_io, fmt_io>>

\* The case 'Clear' button: st.session_state.case = ""; st.rerun()
ClearCase ==
    /\ session_case' = <<>>
    /\ run' = [RunIdle EXCEPT !.kind = "clear_case"]
    /\ UNCHANGED <<history, inserted, task_io, fmt_io>>

\* 'Run Selected' with this task selected and this text in the text area,
\* the provider answering r1, then r2.
RunSelected(task, case, r1, r2) ==
    /\ Len(history) < MaxHistory
    /\ IF ~Truthy(Strip(case))
       THEN /\ run' = [RunIdle EXCEPT !.kind = "single"]
            /\ UNCHANGED <<history, inserted>>
       ELSE LET res == process_task(task, TOPICS(task), Strip(case), r1, r2)
                entry == Entry(<<"Single Task", task>>, Strip(case),
                               <<Result(task, res.answer)>>)
            IN  IF ~res.raised
                THEN /\ history' = AppendEntry(history, entry)
                     /\ inserted' = Append(inserted, entry)
                     /\ run' = [kind |-> "single",
                                runs |-> <<[task |-> task, res |-> res]>>]
                ELSE /\ run' = [kind |-> "single",
                                runs |-> <<[task |-> task, res |-> res]>>]
                     /\ UNCHANGED <<history, inserted>>
    /\ UNCHANGED <<session_case, task_io, fmt_io>>

all_responses_abort(runs) ==
    LET failing == {i \in 1..Len(runs) : runs[i].res.raised}
        upto == IF failing = {} THEN Len(runs)
                ELSE (CHOOSE i \in failing : \A j \in failing : i <= j) - 1
    IN  [i \in 1..upto |-> Result(runs[i].task, runs[i].res.answer)]

\* The loop over TOPICS.items(): each task's answer, or f"Error: {str(e)}"
\* when its process_task raised, stored under the task's name in turn.
all_responses(runs) ==
    [i \in 1..Len(runs) |->
        Result(runs[i].task,
               IF runs[i].res.raised
               THEN ERROR_PREFIX \o runs[i].res.err
               ELSE runs[i].res.answer)]

\* 'Run All Tasks' with this text in the text area; rs[i] is what the
\* provider answers to the first and to the second call of the i-th task.
RunAll(case, rs) ==
    /\ Len(history) < MaxHistory
    /\ IF ~Truthy(Strip(case))
       THEN /\ run' = [RunIdle EXCEPT !.kind = "all"]
            /\ UNCHANGED <<history, inserted>>
       ELSE LET runs == [i \in 1..Len(TOPIC_KEYS) |->
                            [task |-> TOPIC_KEYS[i],
                             res |-> process_task(TOPIC_KEYS[i], TOPICS(TOPIC_KEYS[i]),
                                                  Strip(case), rs[i][1], rs[i][2])]]
                responses == all_responses(runs)
                entry == Entry(<<"All Tasks">>, Strip(case), responses)
            IN  /\ run' = [kind |-> "all", runs |-> runs]
                /\ IF Truthy(responses)
                   THEN /\ history' = AppendEntry(history, entry)
                        /\ inserted' = Append(inserted, entry)
                   ELSE UNCHANGED <<history, inserted>>
    /\ UNCHANGED <<session_case, task_io, fmt_io>>

\* The history 'Clear' button, shown only while there is history
ClearHistory ==
    /\ Truthy(history)
    /\ history' = <<>>
    /\ inserted' = <<>>
    /\ run' = [RunIdle EXCEPT !.kind = "clear_history"]
    /\ UNCHANGED <<session_case, task_io, fmt_io>>

Init ==
    /\ history = <<>>
    /\ session_case = <<>>
    /\ run = RunIdle
    /\ inserted = <<>>
    /\ task_io = TaskIdle
    /\ fmt_io = FmtIdle

Next ==
    \/ \E text \in TemplateTexts : TemplateButton(text)
    \/ ClearCase
    \/ \E task \in Tasks, case \in CaseInputs(session_case) :
           \E r \in ProviderAnswers(case) : RunSelected(task, case, r[1], r[2])
    \/ \E case \in CaseInputs(session_case) :
           \E rs \in [1..Len(TOPIC_KEYS) -> ProviderAnswers(case)] : RunAll(case, rs)
    \/ ClearHistory

Spec == Init /\ [][Next]_vars

-----------------------------------------------------------------------------
(* The history section of the page *)

NotReversed(s) == s

\* reversed(st.session_state.history)
Reversed(s) == [i \in 1..Len(s) |-> s[Len(s) - i + 1]]

\* formatted += f"{line}\n" for every non-blank stripped line
RECURSIVE JoinLines(_)
JoinLines(lines) ==
    IF lines = <<>> THEN <<>>
    ELSE LET line == Strip(Head(lines))
         IN  (IF Truthy(line) THEN line \o <<"\n">> ELSE <<>>) \o JoinLines(Tail(lines))

\* How the history shows one stored response: st.code of its lines, or st.error
ResponseView(response) ==
    IF Truthy(response) /\ ~Contains(response, ERROR_MARK)
    THEN [widget |-> "code", text |-> JoinLines(Split(Strip(response), "\n"))]
    ELSE [widget |-> "error", text |-> response]

\* The runs listed under 'Previous Runs', top to bottom; nothing is listed
\* for an empty history.
HistoryView(h) ==
    LET shown == Reversed(h)
    IN  [i \in 1..Len(shown) |->
            [label   |-> Len(h) - (i - 1),
             type    |-> shown[i].type,
             tasks   |-> Len(shown[i].results),
             case    |-> shown[i].case,
             results |-> [k \in 1..Len(shown[i].results) |->
                             [task |-> shown[i].results[k].task,
                              view |-> ResponseView(shown[i].results[k].response)]]]]

-----------------------------------------------------------------------------
(* Claims about process_task, checked under SpecTask *)

\* The text a response carries, "" when it carries none
TextOf(r) == IF r.kind = "text" THEN r.text ELSE <<>>

\* A response that did not fail and whose text is empty after trimming
EmptyAfterTrim(r) == r.kind # "raise" /\ Strip(TextOf(r)) = <<>>

TaskDone == task_io.phase = "done"

\* C1: when both calls return text that is empty after trimming (absent, ""
\* or whitespace only), process_task returns exactly the sentinel, and so
\* it never returns a string that is empty after trimming.
C1_BothEmptyGivesSentinel ==
    TaskDone =>
        /\ (EmptyAfterTrim(task_io.r1) /\ EmptyAfterTrim(task_io.r2))
               => (~task_io.result.raised /\ task_io.result.answer = SENTINEL)
        /\ ~task_io.result.raised => Strip(task_io.result.answer) # <<>>

\* C2: a second call is made only if the first returned text that is empty
\* after trimming; a non-empty first text is the result after exactly one
\* call; in every case, a failure or an empty second result included, at
\* most two calls are made.
C2_RetryOnlyAfterEmptyAtMostTwoCalls ==
    TaskDone =>
        LET n == Len(task_io.result.calls)
        IN  /\ n \in {1, 2}
            /\ n = 2 => EmptyAfterTrim(task_io.r1)
            /\ (task_io.r1.kind = "text" /\ Strip(task_io.r1.text) # <<>>)
                   => /\ n = 1
                      /\ ~task_io.result.raised
                      /\ task_io.result.answer = task_io.r1.text

C2_Witness ==
    /\ TaskDone
    /\ task_io.r1 = Text(<<" ", "a">>)
    /\ Len(task_io.result.calls) = 1
    /\ task_io.result.answer = <<" ", "a">>

\* C3: when the first call returns text that is empty after trimming and
\* the second returns non-empty text, the result is exactly the second text
\* after exactly two calls, the second with the same (system, user) pair as
\* the first and with the ceiling 5000, above the first call's 3500.
C3_RetryResultAndCeiling ==
    (TaskDone /\ EmptyAfterTrim(task_io.r1)
         /\ task_io.r2.kind = "text" /\ task_io.r2.text # <<>>)
    =>  LET calls == task_io.result.calls
        IN  /\ ~task_io.result.raised
            /\ task_io.result.answer = task_io.r2.text
            /\ Len(calls) = 2
            /\ calls[2].messages = calls[1].messages
            /\ calls[1].messages.user = task_io.case
            /\ calls[1].max_tok = 3500
            /\ calls[2].max_tok = 5000
            /\ calls[2].max_tok > calls[1].max_tok

C3_Witness ==
    /\ TaskDone
    /\ task_io.r1 = Text(<<" ">>)
    /\ task_io.r2 = Text(<<"a", "\n">>)
    /\ task_io.result.answer = <<"a", "\n">>
    /\ Len(task_io.result.calls) = 2

-----------------------------------------------------------------------------
(* Claims about display_result, checked under SpecFmt *)

FmtDone == fmt_io.phase = "done"

\* The years in the order the claim gives them
ClaimedYears == <<Y2025, Y2024, Y2023, Y2022>>

\* C8: the guideline tag is the first of "2025", "2024", "2023", "2022", in
\* that order, that occurs in the answer, and "NONE" if none occurs; the
\* sentinel and the empty answer are tagged "NONE" and rendered as 'No
\* response received', not as a bulleted block.
C8_TagIsFirstYearInDescendingOrder ==
    FmtDone =>
        LET a == fmt_io.answer
            tag == fmt_io.out.tag
        IN  /\ tag \in {ClaimedYears[i] : i \in 1..4} \cup {NONE}
            /\ \A i \in 1..4 :
                   tag = ClaimedYears[i] =>
                       /\ Contains(a, ClaimedYears[i])
                       /\ \A j \in 1..(i - 1) : ~Contains(a, ClaimedYears[j])
            /\ tag = NONE => \A i \in 1..4 : ~Contains(a, ClaimedYears[i])
            /\ a \in {<<>>, SENTINEL} =>
                   /\ tag = NONE
                   /\ fmt_io.out.body = [widget |-> "error", text |-> NO_RESPONSE]

C8_Witness ==
    /\ FmtDone
    /\ fmt_io.answer = Y2022 \o <<" ">> \o Y2024
    /\ fmt_io.out.tag = Y2024

NonBlank(line) == Strip(line) # <<>>

\* The non-blank lines of a text, each trimmed
NonBlankLines(text) ==
    LET kept == SelectSeq(Split(text, "\n"), NonBlank)
    IN  [i \in 1..Len(kept) |-> Strip(kept[i])]

\* The non-empty lines of a rendered text, as they stand
OutputLines(text) == SelectSeq(Split(text, "\n"), Truthy)

\* C9: for a genuine answer the formatted output has exactly one line per
\* non-blank input line, in the same order, each starting with the bullet;
\* a line already starting with the bullet is not prefixed again, and blank
\* input lines give no output line.
C9_OneBulletLinePerNonBlankLine ==
    (FmtDone /\ fmt_io.answer # <<>> /\ fmt_io.answer # SENTINEL) =>
        LET inl == NonBlankLines(fmt_io.answer)
            outl == OutputLines(fmt_io.out.body.text)
        IN  /\ fmt_io.out.body.widget = "info"
            /\ Len(outl) = Len(inl)
            /\ \A i \in 1..Len(inl) :
                   /\ Head(outl[i]) = BULLET
                   /\ outl[i] = IF Head(inl[i]) = BULLET THEN inl[i]
                                ELSE <<BULLET, " ">> \o inl[i]

C9_Witness ==
    /\ FmtDone
    /\ fmt_io.answer = EXAMPLE_LINES
    /\ Len(OutputLines(fmt_io.out.body.text)) = 3
    /\ OutputLines(fmt_io.out.body.text)[3] =
           <<BULLET, " ", "L", "i", "n", "e", " ", "C">>

-----------------------------------------------------------------------------
(* Claims about the handlers and the history, checked under Spec *)

\* The task order the claims give
ClaimedTopics == <<"Treatment", "Confirmatory test", "Differential & next steps">>

\* C4: a 'Run All Tasks' with a non-blank case processes the three tasks in
\* TOPICS order whatever subset of them fails: exactly one 'All Tasks' entry
\* is appended, holding for every task either "Error: " and the failure's
\* text or what that task's process_task returned.
C4_RunAllCapturesEveryTask ==
    [][ (run'.kind = "all" /\ run'.runs # <<>>) =>
          LET runs == run'.runs
              e == history'[Len(history')]
          IN  /\ Len(history') = Len(history) + 1
              /\ SubSeq(history', 1, Len(history)) = history
              /\ e.type = <<"All Tasks">>
              /\ Len(runs) = 3
              /\ Len(e.results) = 3
              /\ \A i \in 1..3 :
                     /\ runs[i].task = ClaimedTopics[i]
                     /\ e.results[i].task = ClaimedTopics[i]
                     /\ runs[i].res.raised =>
                            /\ StartsWith(e.results[i].response, ERROR_PREFIX)
                            /\ e.results[i].response = ERROR_PREFIX \o runs[i].res.err
                     /\ ~runs[i].res.raised =>
                            e.results[i].response = runs[i].res.answer
      ]_vars

C4_Witness ==
    /\ run.kind = "all"
    /\ Len(run.runs) = 3
    /\ run.runs[2].res.raised
    /\ ~run.runs[1].res.raised
    /\ ~run.runs[3].res.raised
    /\ history # <<>>
    /\ history[Len(history)].type = <<"All Tasks">>

\* C5: every provider failure, in a single-task run as in an all-tasks
\* run, is recorded in the history: after the run the newest entry holds,
\* for the failing task, the error string.
C5_FailuresRecordedInHistory ==
    \A i \in 1..Len(run.runs) :
        run.runs[i].res.raised =>
            /\ history # <<>>
            /\ \E k \in 1..Len(history[Len(history)].results) :
                   history[Len(history)].results[k] =
                       Result(run.runs[i].task, ERROR_PREFIX \o run.runs[i].res.err)

\* C6: the history view lists the N entries appended since the last clear
\* most recent first, labelled N down to 1; after the clear-history action
\* the history and its view are empty.
C6_HistoryViewMostRecentFirst ==
    LET view == HistoryView(history)
        N == Len(inserted)
    IN  /\ Len(view) = N
        /\ \A i \in 1..N :
               LET e == inserted[N - i + 1]
               IN  /\ view[i].label = N - i + 1
                   /\ view[i].type = e.type
                   /\ view[i].case = e.case
                   /\ view[i].tasks = Len(e.results)
                   /\ \A k \in 1..Len(e.results) :
                          /\ view[i].results[k].task = e.results[k].task
                          /\ view[i].results[k].view.text \in
                                 {e.results[k].response,
                                  JoinLines(Split(Strip(e.results[k].response), "\n"))}
        /\ run.kind = "clear_history" => (history = <<>> /\ view = <<>>)

C6_Witness ==
    /\ Len(history) = 2
    /\ history[1].type # history[2].type
    /\ HistoryView(history)[1].type = history[2].type
    /\ HistoryView(history)[1].label = 2

\* C7: the history is append-only: every action but the clear-history
\* action keeps the existing entries in place and adds at most one at the
\* end; the template buttons and the case 'Clear' button leave it as it is;
\* it gets shorter only by the clear-history action.
C7_HistoryAppendOnly ==
    [][ /\ run'.kind # "clear_history" =>
              /\ Len(history') \in {Len(history), Len(history) + 1}
              /\ SubSeq(history', 1, Len(history)) = history
        /\ run'.kind \in {"template", "clear_case"} => history' = history
        /\ Len(history') < Len(history) => run'.kind = "clear_history"
      ]_vars

C7_Witness ==
    /\ run.kind = "single"
    /\ Len(run.runs) = 1
    /\ ~run.runs[1].res.raised
    /\ Len(history) = 2
    /\ history[1].type = <<"All Tasks">>

\* The current run appended an entry, which is then the newest one
RunAppended ==
    \/ run.kind = "all" /\ run.runs # <<>>
    \/ run.kind = "single" /\ run.runs # <<>> /\ ~run.runs[1].res.raised

\* C10: the history view renders a stored result as an error if and only
\* if a provider failure produced it; an answer process_task returned is
\* rendered as an answer whatever its text.
C10_ErrorViewIffProviderFailure ==
    RunAppended =>
        LET shown == HistoryView(history)[1]
        IN  \A k \in 1..Len(run.runs) :
                (shown.results[k].view.widget = "error") <=> run.runs[k].res.raised

=============================================================================
